---- MODULE Spec2Model ----
(***************************************************************************)
(* Model of core/server/src/eth_watch.rs: the Ethereum watcher thread       *)
(* (EthWatch::run), the state it shares behind an RwLock (ETHState), the    *)
(* chain it polls, and the one-shot channel of start_eth_watch.             *)
(*                                                                          *)
(* The worker is a sequential thread; pc is its position.  A pc value names *)
(* the blocking call the thread is inside of (or about to issue); the       *)
(* action leaving that pc is the return of the call.                        *)
(***************************************************************************)
EXTENDS Integers, Sequences, FiniteSets, TLC

\* ------------------------------------------------------------------ bounds
MaxBlock == 3               \* the chain is mined up to this height
MaxAdvances == 2            \* process_new_blocks calls explored
PRIORITY_EXPIRATION == 1    \* models::params::PRIORITY_EXPIRATION, scaled down

\* --------------------------------------------------------------- constants
DEPOSIT_OPTYPE_ID == 1
FULLEXIT_OPTYPE_ID == 6
TokenIdBits == 16           \* models::node::TokenId is u16 (token: u16::from_be_bytes)
FullExitLen == 88           \* parse_pubdata: pub_data[24..(24 + 64)]

VARIABLES
    chain,              \* the L1 chain: chain[b] is block b, height = Len(chain)
    pc,                 \* position of the eth_watch thread
    diedAt,             \* pc at which the thread panicked ("none" while alive)
    processed_block,    \* EthWatch.processed_block
    tokens,             \* ETHState.tokens: TokenId -> Address
    priority_queue,     \* ETHState.priority_queue
    lockWriter,         \* RwLock: the write guard is held
    lockReaders,        \* RwLock: number of read guards held
    poisoned,           \* RwLock: a thread panicked holding the write guard
    last_block,         \* process_new_blocks' argument
    new_tokens,         \* process_new_blocks' local
    priority_op_events, \* process_new_blocks' local
    adv,                \* history: the last process_new_blocks call
    advances,           \* history: number of process_new_blocks calls
    parsed,             \* history: <<op_type_id, outcome>> of parse_pubdata calls
    db,                 \* storage: tokens table written by store_token
    channel,            \* sync_channel(1) buffer
    senderAlive,        \* the SyncSender has not been dropped
    sent,               \* history: number of sender.send calls
    launcher,           \* position of the thread inside start_eth_watch
    returned,           \* value start_eth_watch returned ("none" before it returns)
    reader,             \* position of an external reader of the shared state
    attempts,           \* history: the store_token calls of this turn's commit_state
    heightFailed,       \* history: the loop's last height query failed
    advEntry,           \* history: ETHState when the running process_new_blocks began
    covered,            \* history: blocks whose logs were queried and merged
    pub_data,           \* decoder: the pubdata handed to parse_pubdata
    op_data             \* decoder: what parse_pubdata built from it

vars == <<chain, pc, diedAt, processed_block, tokens, priority_queue, lockWriter,
          lockReaders, poisoned, last_block, new_tokens, priority_op_events, adv,
          advances, parsed, db, channel, senderAlive, sent, launcher, returned,
          reader, attempts, heightFailed, advEntry, covered, pub_data, op_data>>

workerVars == <<pc, diedAt, processed_block, last_block, new_tokens,
                priority_op_events, adv, advances, parsed>>
stateVars == <<tokens, priority_queue>>
lockVars == <<lockWriter, lockReaders, poisoned>>
handoffVars == <<channel, senderAlive, sent, launcher, returned>>
histVars == <<attempts, heightFailed, advEntry, covered>>
decVars == <<pub_data, op_data>>

\* ------------------------------------------------------------------ chain
Addresses == {"A", "B"}

\* A block holds the NewPriorityRequest logs of the main contract (each given by
\* its OpType field) and the TokenAdded logs of the governance contract.
BlockKinds ==
    { [prio |-> <<>>, toks |-> <<>>],
      [prio |-> <<DEPOSIT_OPTYPE_ID>>,
       toks |-> <<[id |-> 4, address |-> "B"]>>],
      [prio |-> <<FULLEXIT_OPTYPE_ID>>, toks |-> <<[id |-> 3, address |-> "A"]>>],
      [prio |-> <<2>>, toks |-> <<>>],    \* an OpType the watcher has no arm for
      [prio |-> <<>>, toks |-> <<[id |-> 65539, address |-> "B"]>>] }

Height == Len(chain)

\* eth_getLogs over [from, to], main contract: logs in ascending block order.
RECURSIVE PriorityLogs(_, _)
PriorityLogs(from, to) ==
    IF from > to \/ from > Height THEN <<>>
    ELSE (IF from = 0 THEN <<>>
          ELSE [i \in 1..Len(chain[from].prio) |->
                    [block |-> from, idx |-> i, op |-> chain[from].prio[i]]])
         \o PriorityLogs(from + 1, to)

\* eth_getLogs over [from, to], governance contract.
RECURSIVE TokenLogs(_, _)
TokenLogs(from, to) ==
    IF from > to \/ from > Height THEN <<>>
    ELSE (IF from = 0 THEN <<>>
          ELSE [i \in 1..Len(chain[from].toks) |->
                    [block |-> from, id |-> chain[from].toks[i].id,
                     address |-> chain[from].toks[i].address]])
         \o TokenLogs(from + 1, to)

\* ---------------------------------------------------------------- decoders
\* U256::as_u32(ui) as u8: as_u32 is exact on the values a uint8 field holds,
\* `as u8` keeps the low byte.
OpTypeOf(raw) == raw % (2 ^ 8)

\* PriorityOpData::parse_pubdata: the variant built, or "panic".
parse_pubdata(op_type_id) ==
    IF op_type_id = DEPOSIT_OPTYPE_ID THEN "Deposit"
    ELSE IF op_type_id = FULLEXIT_OPTYPE_ID THEN "FullExit"
    ELSE "panic"

\* u16::from_be_bytes / u32::from_be_bytes
RECURSIVE from_be_bytes(_)
from_be_bytes(bytes) ==
    IF bytes = <<>> THEN 0
    ELSE from_be_bytes(SubSeq(bytes, 1, Len(bytes) - 1)) * 256
         + bytes[Len(bytes)]

\* Mutation of FullExit_eth_address: the address starts after the account id.
FullExit_eth_address_Disjoint(bytes) == SubSeq(bytes, 4, 23)

\* Address::from_slice(&pub_data[2..(20 + 2)]); sequences count from 1.
FullExit_eth_address(bytes) == SubSeq(bytes, 3, 22)

\* parse_pubdata, the FULLEXIT_OPTYPE_ID arm.  The last slice, [24..88], is the
\* longest one: a shorter buffer panics in one of the slicings.
FullExit_parse(bytes) ==
    IF Len(bytes) < FullExitLen THEN [variant |-> "panic"]
    ELSE [variant |-> "FullExit",
          account_id |-> from_be_bytes(<<0>> \o SubSeq(bytes, 1, 3)),
          eth_address |-> FullExit_eth_address(bytes),
          token |-> from_be_bytes(SubSeq(bytes, 23, 24)),
          signature |-> SubSeq(bytes, 25, FullExitLen)]

\* No parse_pubdata call has been made.
NotParsed == [variant |-> "none"]

\* PriorityOp::try_from.  block and idx name the log the op was decoded from;
\* they stand for the op's identity and are not fields of PriorityOp.
PriorityOp_try_from(event) ==
    [data |-> parse_pubdata(OpTypeOf(event.op)), block |-> event.block,
     idx |-> event.idx]

\* .into_iter().map(PriorityOp::try_from).collect(): logs are decoded in order,
\* and a panic in one of them unwinds before the later ones are looked at.
RECURSIVE CollectPriorityOps(_)
CollectPriorityOps(logs) ==
    IF logs = <<>> THEN [status |-> "ok", events |-> <<>>, parsed |-> {}]
    ELSE LET op == PriorityOp_try_from(Head(logs))
             call == <<OpTypeOf(Head(logs).op), op.data>>
         IN IF op.data = "panic"
            THEN [status |-> "panic", events |-> <<>>, parsed |-> {call}]
            ELSE LET rest == CollectPriorityOps(Tail(logs))
                 IN [status |-> rest.status,
                     events |-> IF rest.status = "ok" THEN <<op>> \o rest.events
                                ELSE <<>>,
                     parsed |-> {call} \cup rest.parsed]

\* EthWatch::get_priority_op_events; ok = the chain client answered the query.
get_priority_op_events(from, to, ok) ==
    IF ~ok THEN [status |-> "err", events |-> <<>>, parsed |-> {}]
    ELSE CollectPriorityOps(PriorityLogs(from, to))

\* TokenAddedEvent::try_from: U256::as_u32 of the id field, exact on the values
\* a uint32 field holds.
TokenAddedEvent_try_from(event) ==
    [address |-> event.address, id |-> event.id]

\* EthWatch::get_new_token_events.
get_new_token_events(from, to, ok) ==
    IF ~ok THEN [status |-> "err", events |-> <<>>]
    ELSE LET logs == TokenLogs(from, to)
         IN [status |-> "ok",
             events |-> [i \in 1..Len(logs) |-> TokenAddedEvent_try_from(logs[i])]]

\* ------------------------------------------------------------ shared state
\* `token.id as TokenId`
AsTokenId(id) == id % (2 ^ TokenIdBits)

\* ETHState::add_new_token: HashMap::insert.
add_new_token(toks, id, address) ==
    [k \in DOMAIN toks \cup {id} |-> IF k = id THEN address ELSE toks[k]]

\* for token in new_tokens { eth_state.add_new_token(token.id as TokenId, ..) }
RECURSIVE AddTokens(_, _)
AddTokens(toks, events) ==
    IF events = <<>> THEN toks
    ELSE AddTokens(add_new_token(toks, AsTokenId(Head(events).id),
                                 Head(events).address),
                   Tail(events))

\* Mutation of push_all: the queue is assigned the new events.
push_all_Replacing(queue, events) == events

\* priority_queue.extend(..) / for op in events { priority_queue.push(op) }
push_all(queue, events) == queue \o events

\* Mutation of restore_from_block: the window starts one block late.
restore_from_block_Late(block) ==
    IF block >= PRIORITY_EXPIRATION THEN block - PRIORITY_EXPIRATION + 1 ELSE 0

\* block.saturating_sub(PRIORITY_EXPIRATION)
restore_from_block(block) ==
    IF block >= PRIORITY_EXPIRATION THEN block - PRIORITY_EXPIRATION ELSE 0

\* Mutation of CursorAfterAdvance: the cursor is moved whatever the result.
CursorAfterAdvance_Always(cursor, target, ok) == target

\* The loop body of run: what processed_block is after process_new_blocks(target)
\* returned ok (Ok or Err).  The loop assigns nothing to processed_block.
CursorAfterAdvance(cursor, target, ok) == cursor

\* Mutation of advance_from: the range starts one block late.
advance_from_Skipping(cursor) == cursor + 2

\* process_new_blocks: BlockNumber::Number(self.processed_block + 1), the first
\* block of both queries.
advance_from(cursor) == cursor + 1

\* Mutation of proceeds_to_advance: a failed height query is not told from an
\* answered one.
proceeds_to_advance_IgnoringError(ok, block, cursor) == block > cursor

\* run: `if let Ok(block) = last_block_number { .. } else { continue }` and
\* `if block > self.processed_block`.
proceeds_to_advance(ok, block, cursor) == ok /\ block > cursor

\* Mutation of tokens_after_token_query: the new tokens are merged as soon as
\* their query returns.
tokens_after_token_query_Merging(toks, events) == AddTokens(toks, events)

\* process_new_blocks: the registry between the two queries.  The decoded
\* events wait in the local new_tokens; ETHState is not touched.
tokens_after_token_query(toks, events) == toks

\* Mutation of guard_held_between_loops: one write guard per loop.
guard_held_between_loops_Dropped == FALSE

\* process_new_blocks: the write guard taken before the priority op loop lives
\* to the end of the function, so it is held between the two loops.
guard_held_between_loops == TRUE

\* Mutation of store_token_calls: the first failure ends the loop (keys taken
\* in ascending order).
store_token_calls_Aborting(ids, failed) ==
    [k \in {i \in ids : \A f \in failed : i <= f} |-> 1]

\* commit_state: number of store_token calls per registry key.  The loop goes
\* over every entry once; an Err is logged and the loop goes on.
store_token_calls(ids, failed) == [k \in ids |-> 1]

\* Mutation of get_shared_eth_state: a handle to a copy of the state.
get_shared_eth_state_Copy == "copy"

\* EthWatch::get_shared_eth_state: a clone of the Arc made by EthWatch::new.
get_shared_eth_state == "eth_state"

\* format!("0x{:x}", address)
FormatAddress(address) == <<"0x", address>>

EmptyMap == [k \in {} |-> "A"]
NoAdvance == [target |-> 0, before |-> 0, result |-> "none"]
NoAttempts == [storage |-> "none", calls |-> EmptyMap, failed |-> {}]
NoEntry == [tokens |-> EmptyMap, priority_queue |-> <<>>]

\* -------------------------------------------------------------------- Init
WatcherInit ==
    /\ chain = <<>>
    /\ pc = "unspawned"
    /\ diedAt = "none"
    /\ processed_block = 0
    /\ tokens = EmptyMap
    /\ priority_queue = <<>>
    /\ lockWriter = FALSE
    /\ lockReaders = 0
    /\ poisoned = FALSE
    /\ last_block = 0
    /\ new_tokens = <<>>
    /\ priority_op_events = <<>>
    /\ adv = NoAdvance
    /\ advances = 0
    /\ parsed = {}
    /\ db = EmptyMap
    /\ channel = <<>>
    /\ senderAlive = TRUE
    /\ sent = 0
    /\ launcher = "start"
    /\ returned = "none"
    /\ reader = "idle"
    /\ attempts = NoAttempts
    /\ heightFailed = FALSE
    /\ advEntry = NoEntry
    /\ covered = {}

\* The watcher before start_eth_watch is called; the decoder is not in use.
Init ==
    /\ WatcherInit
    /\ pub_data = <<>>
    /\ op_data = NotParsed

\* ------------------------------------------------------------- environment
\* The chain grows by one block.
Mine ==
    /\ Height < MaxBlock
    /\ \E b \in BlockKinds : chain' = Append(chain, b)
    /\ UNCHANGED <<decVars, histVars, workerVars, stateVars, lockVars, db, handoffVars, reader>>

\* An external holder of the returned handle takes a read guard ...
ReaderAcquire ==
    /\ launcher = "returned"
    /\ reader = "idle"
    /\ ~lockWriter
    /\ ~poisoned
    /\ lockReaders' = lockReaders + 1
    /\ reader' = "reading"
    /\ UNCHANGED <<decVars, histVars, chain, workerVars, stateVars, lockWriter, poisoned, db,
                   handoffVars>>

\* ... and drops it.
ReaderRelease ==
    /\ reader = "reading"
    /\ lockReaders' = lockReaders - 1
    /\ reader' = "idle"
    /\ UNCHANGED <<decVars, histVars, chain, workerVars, stateVars, lockWriter, poisoned, db,
                   handoffVars>>

\* ---------------------------------------------------------- start_eth_watch
\* A panic of the eth_watch thread at position `at`: the closure unwinds and
\* drops the SyncSender it owns.
Panic(at) ==
    /\ pc' = "dead"
    /\ diedAt' = at
    /\ senderAlive' = FALSE

\* std::thread::Builder::spawn(..).expect("Eth watcher thread")
Spawn ==
    /\ launcher = "start"
    /\ \E ok \in BOOLEAN :
         IF ok THEN /\ launcher' = "recv"
                    /\ pc' = "spawned"
                    /\ UNCHANGED senderAlive
               ELSE /\ launcher' = "panicked"
                    /\ senderAlive' = FALSE
                    /\ UNCHANGED pc
    /\ UNCHANGED <<decVars, histVars, chain, diedAt, processed_block, last_block, new_tokens,
                   priority_op_events, adv, advances, parsed, stateVars, lockVars,
                   db, channel, sent, returned, reader>>

\* env::var("WEB3_URL"), Http::new, EthWatch::new: each panics on a missing or
\* malformed setting (cfg = FALSE).
Construct ==
    /\ pc = "spawned"
    /\ \E cfg \in BOOLEAN :
         IF cfg THEN /\ pc' = "constructed"
                     /\ processed_block' = 0
                     /\ tokens' = EmptyMap
                     /\ priority_queue' = <<>>
                     /\ UNCHANGED <<diedAt, senderAlive>>
                ELSE /\ Panic("spawned")
                     /\ UNCHANGED <<processed_block, tokens, priority_queue>>
    /\ UNCHANGED <<decVars, histVars, chain, last_block, new_tokens, priority_op_events, adv,
                   advances, parsed, lockVars, db, channel, sent, launcher,
                   returned, reader>>

\* sender.send(eth_watch.get_shared_eth_state()).unwrap(): the buffer of
\* sync_channel(1) is empty, so the send does not block.
Publish ==
    /\ pc = "constructed"
    /\ Len(channel) < 1
    /\ channel' = Append(channel, get_shared_eth_state)
    /\ sent' = sent + 1
    /\ pc' = "run_height"
    /\ UNCHANGED <<decVars, histVars, chain, diedAt, processed_block, last_block, new_tokens,
                   priority_op_events, adv, advances, parsed, stateVars, lockVars,
                   db, senderAlive, launcher, returned, reader>>

\* receiver.recv().unwrap(): a buffered value is returned; with the buffer
\* empty and the sender dropped recv is Err and unwrap panics; otherwise it
\* blocks.
Recv ==
    /\ launcher = "recv"
    /\ IF channel # <<>>
       THEN /\ returned' = Head(channel)
            /\ channel' = Tail(channel)
            /\ launcher' = "returned"
       ELSE /\ ~senderAlive
            /\ launcher' = "panicked"
            /\ UNCHANGED <<returned, channel>>
    /\ UNCHANGED <<decVars, histVars, chain, workerVars, stateVars, lockVars, db, senderAlive, sent,
                   reader>>

\* -------------------------------------------------------------- EthWatch::run
\* web3.eth().block_number().wait().expect("Block number");
\* self.processed_block = block
RunHeight ==
    /\ pc = "run_height"
    /\ \E ok \in BOOLEAN :
         IF ok THEN /\ processed_block' = Height
                    /\ pc' = "restore_lock"
                    /\ UNCHANGED <<diedAt, senderAlive>>
               ELSE /\ Panic("run_height")
                    /\ UNCHANGED processed_block
    /\ UNCHANGED <<decVars, histVars, chain, last_block, new_tokens, priority_op_events, adv,
                   advances, parsed, stateVars, lockVars, db, channel, sent,
                   launcher, returned, reader>>

\* restore_state_from_eth: self.eth_state.write() is its first statement.
RestoreLock ==
    /\ pc = "restore_lock"
    /\ ~lockWriter
    /\ lockReaders = 0
    /\ lockWriter' = TRUE
    /\ pc' = "restore_prio"
    /\ UNCHANGED <<decVars, histVars, chain, diedAt, processed_block, last_block, new_tokens,
                   priority_op_events, adv, advances, parsed, stateVars,
                   lockReaders, poisoned, db, handoffVars, reader>>

\* restore_state_from_eth: the priority queue query, made with the write guard
\* held, .expect(..) on its result, then priority_queue.extend.
RestorePriority ==
    /\ pc = "restore_prio"
    /\ \E ok \in BOOLEAN :
         LET r == get_priority_op_events(restore_from_block(processed_block),
                                         processed_block, ok)
         IN /\ parsed' = parsed \cup r.parsed
            /\ IF r.status = "ok"
               THEN /\ priority_queue' = push_all(priority_queue, r.events)
                    /\ pc' = "restore_tokens"
                    /\ UNCHANGED <<diedAt, senderAlive, lockWriter, poisoned>>
               ELSE /\ Panic("restore_prio")
                    /\ lockWriter' = FALSE
                    /\ poisoned' = TRUE
                    /\ UNCHANGED priority_queue
    /\ UNCHANGED <<decVars, histVars, chain, processed_block, last_block, new_tokens,
                   priority_op_events, adv, advances, tokens, lockReaders, db,
                   channel, sent, launcher, returned, reader>>

\* restore_state_from_eth: the token query over [Earliest, block], still with
\* the write guard held, the merge, and the guard's drop at the end.
RestoreTokens ==
    /\ pc = "restore_tokens"
    /\ \E ok \in BOOLEAN :
         LET r == get_new_token_events(0, processed_block, ok)
         IN IF r.status = "ok"
            THEN /\ tokens' = AddTokens(tokens, r.events)
                 /\ pc' = "sleep"
                 /\ lockWriter' = FALSE
                 /\ covered' = covered \cup (restore_from_block(processed_block)
                                              .. processed_block)
                 /\ UNCHANGED <<diedAt, senderAlive, poisoned>>
            ELSE /\ Panic("restore_tokens")
                 /\ lockWriter' = FALSE
                 /\ poisoned' = TRUE
                 /\ UNCHANGED <<tokens, covered>>
    /\ UNCHANGED <<decVars, attempts, heightFailed, advEntry, chain, processed_block, last_block, new_tokens,
                   priority_op_events, adv, advances, parsed, priority_queue,
                   lockReaders, db, channel, sent, launcher, returned, reader>>

\* One turn of the loop up to the call of process_new_blocks: sleep, the height
\* query (`continue` when it fails), the test block > self.processed_block.
Tick ==
    /\ pc = "sleep"
    /\ \E ok \in BOOLEAN :
         /\ heightFailed' = ~ok
         /\ IF proceeds_to_advance(ok, Height, processed_block)
            THEN /\ advances < MaxAdvances
                 /\ advances' = advances + 1
                 /\ last_block' = Height
                 /\ adv' = [target |-> Height, before |-> processed_block,
                            result |-> "running"]
                 /\ advEntry' = [tokens |-> tokens,
                                 priority_queue |-> priority_queue]
                 /\ pc' = "adv_tokens"
            ELSE UNCHANGED <<advances, last_block, adv, advEntry, pc>>
    /\ attempts' = NoAttempts
    /\ UNCHANGED <<decVars, covered, chain, diedAt, processed_block, new_tokens,
                   priority_op_events, parsed, stateVars, lockVars, db,
                   handoffVars, reader>>

\* process_new_blocks returned Err: run ignores the result and goes on to
\* commit_state.
AdvanceFailed ==
    /\ adv' = [adv EXCEPT !.result = "err"]
    /\ processed_block' = CursorAfterAdvance(processed_block, last_block, FALSE)
    /\ new_tokens' = <<>>
    /\ priority_op_events' = <<>>
    /\ advEntry' = NoEntry
    /\ pc' = "commit"

\* process_new_blocks: get_new_token_events(processed_block + 1, last_block)?
AdvanceTokens ==
    /\ pc = "adv_tokens"
    /\ \E ok \in BOOLEAN :
         LET r == get_new_token_events(advance_from(processed_block), last_block,
                                       ok)
         IN IF r.status = "ok"
            THEN /\ new_tokens' = r.events
                 /\ tokens' = tokens_after_token_query(tokens, r.events)
                 /\ pc' = "adv_prio"
                 /\ UNCHANGED <<adv, processed_block, priority_op_events,
                                advEntry>>
            ELSE /\ AdvanceFailed
                 /\ UNCHANGED tokens
    /\ UNCHANGED <<decVars, attempts, heightFailed, covered, chain, diedAt,
                   last_block, advances, parsed, priority_queue, lockVars, db,
                   handoffVars, reader>>

\* process_new_blocks: get_priority_op_events(processed_block + 1, last_block)?
AdvancePriority ==
    /\ pc = "adv_prio"
    /\ \E ok \in BOOLEAN :
         LET r == get_priority_op_events(advance_from(processed_block),
                                         last_block, ok)
         IN /\ parsed' = parsed \cup r.parsed
            /\ CASE r.status = "ok" ->
                      /\ priority_op_events' = r.events
                      /\ pc' = "adv_lock"
                      /\ UNCHANGED <<adv, processed_block, new_tokens, diedAt,
                                     senderAlive, advEntry>>
                 [] r.status = "err" ->
                      /\ AdvanceFailed
                      /\ UNCHANGED <<diedAt, senderAlive>>
                 [] r.status = "panic" ->
                      /\ Panic("adv_prio")
                      /\ UNCHANGED <<adv, processed_block, new_tokens,
                                     priority_op_events, advEntry>>
    /\ UNCHANGED <<decVars, attempts, heightFailed, covered, chain, last_block,
                   advances, stateVars, lockVars, db, channel, sent, launcher,
                   returned, reader>>

\* process_new_blocks: self.eth_state.write(), after both queries returned.
AdvanceLock ==
    /\ pc = "adv_lock"
    /\ ~lockWriter
    /\ lockReaders = 0
    /\ lockWriter' = TRUE
    /\ pc' = "adv_merge"
    /\ UNCHANGED <<decVars, histVars, chain, diedAt, processed_block, last_block,
                   new_tokens, priority_op_events, adv, advances, parsed,
                   stateVars, lockReaders, poisoned, db, handoffVars, reader>>

\* process_new_blocks: the priority op loop, under the write guard.
AdvanceMerge ==
    /\ pc = "adv_merge"
    /\ priority_queue' = push_all(priority_queue, priority_op_events)
    /\ priority_op_events' = <<>>
    /\ lockWriter' = guard_held_between_loops
    /\ pc' = "adv_merge_tokens"
    /\ UNCHANGED <<decVars, histVars, chain, diedAt, processed_block, last_block,
                   new_tokens, adv, advances, parsed, tokens, lockReaders,
                   poisoned, db, handoffVars, reader>>

\* process_new_blocks: the token loop, Ok(()), the drop of the write guard and
\* the return to run.
AdvanceMergeTokens ==
    /\ pc = "adv_merge_tokens"
    /\ tokens' = AddTokens(tokens, new_tokens)
    /\ new_tokens' = <<>>
    /\ lockWriter' = FALSE
    /\ adv' = [adv EXCEPT !.result = "ok"]
    /\ processed_block' = CursorAfterAdvance(processed_block, last_block, TRUE)
    /\ covered' = covered \cup (advance_from(processed_block) .. last_block)
    /\ advEntry' = NoEntry
    /\ pc' = "commit"
    /\ UNCHANGED <<decVars, attempts, heightFailed, chain, diedAt, last_block,
                   priority_op_events, advances, parsed, priority_queue,
                   lockReaders, poisoned, db, handoffVars, reader>>

\* commit_state: under a read guard, store_token for every registry entry;
\* access_storage may fail (storageOk = FALSE) and any store_token may fail
\* (the ids in failed): each failure is logged and nothing else happens.
Commit ==
    /\ pc = "commit"
    /\ ~lockWriter
    /\ \E storageOk \in BOOLEAN, failed \in SUBSET (DOMAIN tokens) :
         LET calls == IF storageOk THEN store_token_calls(DOMAIN tokens, failed)
                      ELSE EmptyMap
             written == DOMAIN calls \ failed
         IN /\ db' = [k \in DOMAIN db \cup written |->
                         IF k \in written THEN FormatAddress(tokens[k])
                         ELSE db[k]]
            /\ attempts' = [storage |-> IF storageOk THEN "ok" ELSE "err",
                            calls |-> calls,
                            failed |-> failed \cap DOMAIN calls]
    /\ pc' = "sleep"
    /\ UNCHANGED <<decVars, heightFailed, advEntry, covered, chain, diedAt,
                   processed_block, last_block, new_tokens, priority_op_events,
                   adv, advances, parsed, stateVars, lockVars, handoffVars,
                   reader>>

Next ==
    \/ Mine
    \/ ReaderAcquire
    \/ ReaderRelease
    \/ Spawn
    \/ Construct
    \/ Publish
    \/ Recv
    \/ RunHeight
    \/ RestoreLock
    \/ RestorePriority
    \/ RestoreTokens
    \/ Tick
    \/ AdvanceTokens
    \/ AdvancePriority
    \/ AdvanceLock
    \/ AdvanceMerge
    \/ AdvanceMergeTokens
    \/ Commit

Spec == Init /\ [][Next]_vars

\* The eth_watch thread and the thread in start_eth_watch are scheduled by the
\* operating system: a step either can take is eventually taken.
FairSpec ==
    /\ Spec
    /\ WF_vars(Construct)
    /\ WF_vars(Publish)
    /\ WF_vars(Recv)

\* ------------------------------------------------------------ the decoder
\* Byte values and buffer lengths the decoder is run on.
Bytes == {0, 1, 255}
Lens == {FullExitLen - 1, FullExitLen, FullExitLen + 1}

\* A buffer of len bytes: b gives the bytes at offsets 0, 1, 2, 22 and 23, every
\* other byte is told from its neighbours by its offset.
MakeBuffer(len, b, fill) ==
    [i \in 1..len |->
        CASE i \in 1..3 -> b[i]
          [] i \in 23..24 -> b[i - 19]
          [] OTHER -> (fill + i) % 256]

Buffers ==
    {MakeBuffer(len, b, fill) :
        len \in Lens, b \in [1..5 -> Bytes], fill \in {0, 100}}

\* The op types parse_pubdata is called with.
OpTypes == {DEPOSIT_OPTYPE_ID, FULLEXIT_OPTYPE_ID, 2}

DecodeInit ==
    /\ WatcherInit
    /\ pub_data \in Buffers
    /\ op_data = NotParsed

\* PriorityOpData::parse_pubdata(pub_data, op_type_id).  The Deposit arm is
\* kept as its variant name.
ParsePubdata ==
    /\ op_data = NotParsed
    /\ \E op_type_id \in OpTypes :
         op_data' = IF parse_pubdata(op_type_id) = "FullExit"
                    THEN [op_type_id |-> op_type_id] @@ FullExit_parse(pub_data)
                    ELSE [op_type_id |-> op_type_id,
                          variant |-> parse_pubdata(op_type_id)]
    /\ UNCHANGED <<pub_data, histVars, chain, workerVars, stateVars, lockVars,
                   db, handoffVars, reader>>

DecodeNext == ParsePubdata

DecodeSpec == DecodeInit /\ [][DecodeNext]_vars

\* ------------------------------------------------------------------ claims
IsPrefix(s, t) == Len(s) <= Len(t) /\ SubSeq(t, 1, Len(s)) = s

QueueIndex == 1..Len(priority_queue)

\* Positions of the worker inside the loop of run.
SteadyPcs == {"sleep", "adv_tokens", "adv_prio", "adv_lock", "adv_merge",
              "adv_merge_tokens", "commit"}

\* Positions at which the worker is inside a chain-client call.
ChainCallPcs == {"run_height", "restore_prio", "restore_tokens", "sleep",
                 "adv_tokens", "adv_prio"}

\* C1: after a tick whose process_new_blocks(height) succeeded, processed_block
\* equals that height.
C1_CursorIsLastAdvancedTarget ==
    (pc = "sleep" /\ adv.result = "ok") => processed_block = adv.target

\* C2: no NewPriorityRequest log is in the priority queue twice.
C2_NoLogQueuedTwice ==
    \A i, j \in QueueIndex :
        i # j => <<priority_queue[i].block, priority_queue[i].idx>>
                 # <<priority_queue[j].block, priority_queue[j].idx>>

\* C3: the priority queue is ordered by the block of the log of each entry.
C3_QueueInBlockOrder ==
    \A i, j \in QueueIndex :
        i < j => priority_queue[i].block <= priority_queue[j].block

\* C4: after a process_new_blocks that returned Err, processed_block is what it
\* was when the call was made.
C4_FailedAdvanceKeepsCursor ==
    adv.result = "err" => processed_block = adv.before

C4_Witness ==
    /\ pc = "sleep"
    /\ adv.result = "err"
    /\ adv.target > adv.before

\* C5: every step leaves the old priority queue as a prefix of the new one.
C5_QueueAppendOnly == [][IsPrefix(priority_queue, priority_queue')]_vars

C5_Witness ==
    /\ adv.result = "ok"
    /\ Len(priority_queue) >= 2
    /\ priority_queue[1].block <= processed_block
    /\ priority_queue[Len(priority_queue)].block > processed_block

\* The NewPriorityRequest logs of the chain in blocks lo..hi, as <<block, idx>>.
PriorityLogIds(lo, hi) ==
    {id \in (1..Height) \X (1..1) :
        /\ lo <= id[1] /\ id[1] <= hi
        /\ id[2] <= Len(chain[id[1]].prio)}

C7_NoChainCallUnderWriteLock == pc \in ChainCallPcs => ~lockWriter

\* C8: the worker does not die inside the loop of run.
C8_SteadyPollingNeverDies == diedAt \notin SteadyPcs

\* C9: parse_pubdata of a tag other than 1 and 6 is a decode failure: not a
\* panic, not a Deposit, not a FullExit.
C9_UnsupportedTagIsDecodeFailure ==
    \A p \in parsed :
        p[1] \notin {DEPOSIT_OPTYPE_ID, FULLEXIT_OPTYPE_ID}
            => p[2] = "UnsupportedOperationType"

\* C10: the handle is sent once, after construction and before the worker's
\* first chain query; start_eth_watch returns that handle; and a start_eth_watch
\* waiting in recv always comes out of it.
C10_HandoffSafe ==
    /\ sent <= 1
    /\ pc \in {"unspawned", "spawned", "constructed"} => sent = 0
    /\ pc \in ChainCallPcs \cup SteadyPcs \cup {"restore_lock"} => sent = 1
    /\ launcher = "returned" => (sent = 1 /\ returned = "eth_state")

C10_Handoff ==
    /\ []C10_HandoffSafe
    /\ (launcher = "recv") ~> (launcher \in {"returned", "panicked"})

C10_Witness ==
    /\ launcher = "returned"
    /\ returned = "eth_state"
    /\ priority_queue # <<>>

\* C11: commit_state runs only in a tick whose process_new_blocks returned Ok:
\* store_token is not called after a failed advance, after a failed height
\* query, or when the height is not above the cursor.
C11_CommitOnlyAfterSuccessfulAdvance ==
    (pc = "commit" \/ attempts.storage # "none")
        => (adv.result = "ok" /\ ~heightFailed)

C13_FailedHeightSkipsTick ==
    [][(pc = "sleep" /\ heightFailed') =>
          /\ pc' = "sleep"
          /\ attempts'.storage = "none"
          /\ UNCHANGED <<tokens, priority_queue, processed_block, db, adv,
                         advances, new_tokens, priority_op_events, parsed>>
      ]_vars

\* The height query failed while the chain was above the cursor.
C13_Witness ==
    /\ pc = "sleep"
    /\ heightFailed
    /\ Height > processed_block
    /\ advances < MaxAdvances

\* The ids of a sequence of TokenAdded events, and the address of the last
\* event of the sequence that carries the id.
EventIds(events) == {events[i].id : i \in 1..Len(events)}
LastAddressFor(events, id) ==
    LET last == CHOOSE i \in 1..Len(events) :
                    /\ events[i].id = id
                    /\ \A j \in (i + 1)..Len(events) : events[j].id # id
    IN events[last].address

\* C14: merging a sequence of TokenAdded events leaves exactly one entry per
\* id seen, mapped to the address of the last event for that id, keeps every
\* other entry, and merging the same events again changes nothing.
C14_MergeLastWriterWins ==
    [][(pc = "adv_merge_tokens" /\ pc' = "commit") =>
          /\ DOMAIN tokens' = DOMAIN tokens \cup EventIds(new_tokens)
          /\ \A k \in EventIds(new_tokens) :
                 tokens'[k] = LastAddressFor(new_tokens, k)
          /\ \A k \in DOMAIN tokens \ EventIds(new_tokens) :
                 tokens'[k] = tokens[k]
          /\ AddTokens(tokens', new_tokens) = tokens'
      ]_vars

\* C15: on an 88-byte buffer the FullExit arm yields account_id = bytes [0:3)
\* as the low three bytes of a big-endian u32 (top byte zero), eth_address =
\* bytes [2:22), token = big-endian u16 of bytes [22:24), signature = the 64
\* bytes [24:88); the low byte of account_id is the first byte of eth_address.
C15_FullExitDecode ==
    (op_data.variant # "none" /\ op_data.op_type_id = FULLEXIT_OPTYPE_ID
        /\ Len(pub_data) = 88)
    => /\ op_data.variant = "FullExit"
       /\ op_data.account_id
              = pub_data[1] * 65536 + pub_data[2] * 256 + pub_data[3]
       /\ op_data.account_id < 16777216
       /\ op_data.eth_address = [i \in 1..20 |-> pub_data[i + 2]]
       /\ op_data.token = pub_data[23] * 256 + pub_data[24]
       /\ op_data.signature = [i \in 1..64 |-> pub_data[i + 24]]
       /\ op_data.account_id % 256 = op_data.eth_address[1]

\* A FullExit decoded from an 88-byte buffer with three non-zero account id
\* bytes, the shared byte being 255.
C15_Witness ==
    /\ op_data.variant = "FullExit"
    /\ Len(pub_data) = 88
    /\ pub_data[1] = 1
    /\ pub_data[2] = 1
    /\ pub_data[3] = 255
    /\ op_data.eth_address[1] = 255
    /\ op_data.token = 511

\* C16: a process_new_blocks that returns Err, whichever of its two queries
\* failed, leaves the registry and the queue as they were when it was called,
\* and nothing is merged before both queries have returned; one that returns
\* Ok has appended the priority ops of its range and merged its tokens.
C16_FailedAdvanceAtomic ==
    [][/\ (adv.result = "running" /\ adv'.result = "err")
            => /\ tokens' = advEntry.tokens
               /\ priority_queue' = advEntry.priority_queue
       /\ (adv'.result = "running" /\ pc' \in {"adv_prio", "adv_lock", "adv_merge"})
            => /\ tokens' = advEntry'.tokens
               /\ priority_queue' = advEntry'.priority_queue
       /\ (adv.result = "running" /\ adv'.result = "ok")
            => /\ priority_queue'
                    = advEntry.priority_queue
                      \o get_priority_op_events(adv.before + 1, adv.target,
                                                TRUE).events
               /\ tokens'
                    = AddTokens(advEntry.tokens,
                                get_new_token_events(adv.before + 1, adv.target,
                                                     TRUE).events)
      ]_vars

\* A failed process_new_blocks whose range held logs of both kinds, none of
\* which is in the shared state.
C16_Witness ==
    /\ pc = "commit"
    /\ adv.result = "err"
    /\ TokenLogs(adv.before + 1, adv.target) # <<>>
    /\ PriorityLogs(adv.before + 1, adv.target) # <<>>
    /\ tokens = EmptyMap
    /\ priority_queue = <<>>

\* The shared state holds the priority ops of a call and not yet its tokens:
\* between the two loops of process_new_blocks, between the extend and the
\* token loop of restore_state_from_eth, or for good when the worker died
\* there.
PartlyMerged ==
    \/ pc \in {"restore_tokens", "adv_merge_tokens"}
    \/ pc = "dead" /\ diedAt = "restore_tokens"

\* C17: a reader that holds a read guard never sees the shared state partly
\* merged, and never holds the guard together with the writer.
C17_NoPartialMergeObserved ==
    reader = "reading" => (~lockWriter /\ ~PartlyMerged)

\* A reader holds a read guard right after a process_new_blocks merged
\* priority ops and tokens.
C17_Witness ==
    /\ reader = "reading"
    /\ pc = "commit"
    /\ adv.result = "ok"
    /\ tokens # EmptyMap
    /\ priority_queue # <<>>

\* C18: no block is skipped.  The catch-up window ends at the startup height;
\* both queries of a process_new_blocks are over [processed_block + 1,
\* last_block]; and the blocks covered by the catch-up and the successful
\* advances form one range without a gap, from the start of the catch-up
\* window to the highest target of a successful advance.
C18_NoBlockSkipped ==
    /\ pc \in SteadyPcs
         => (restore_from_block(processed_block) .. processed_block)
                \subseteq covered
    /\ \A a \in covered, b \in covered : (a .. b) \subseteq covered
    /\ pc \in {"adv_prio", "adv_lock", "adv_merge", "adv_merge_tokens"}
         => new_tokens
                = get_new_token_events(adv.before + 1, adv.target, TRUE).events
    /\ pc \in {"adv_lock", "adv_merge"}
         => priority_op_events
                = get_priority_op_events(adv.before + 1, adv.target, TRUE).events
    /\ adv.result = "ok"
         => /\ (adv.before + 1 .. adv.target) \subseteq covered
            /\ \A b \in covered : b <= adv.target \/ b <= processed_block

\* A successful advance over a range of two blocks or more, after a startup
\* above the first block.
C18_Witness ==
    /\ pc = "commit"
    /\ adv.result = "ok"
    /\ adv.before >= 1
    /\ adv.target >= adv.before + 2
    /\ (adv.before + 1 .. adv.target) \subseteq covered

\* A priority log the decoder has an arm for is in the queue; a token log is
\* in the registry (under the key the merge gives it).
PriorityLogQueued(log) ==
    \E i \in 1..Len(priority_queue) :
        priority_queue[i].block = log.block /\ priority_queue[i].idx = log.idx
TokenLogMerged(log) == AsTokenId(log.id) \in DOMAIN tokens

\* C19: every NewPriorityRequest and TokenAdded log of a block above the
\* startup height comes to be in the shared state.  Stated on finite runs: the
\* worker is not dead inside the loop of run while a decodable log of a block
\* above the startup height is missing from the shared state, since a dead
\* worker adds nothing any more.
C19_NoLogLostForGood ==
    (pc = "dead" /\ diedAt \in SteadyPcs)
        => LET prio == PriorityLogs(processed_block + 1, Height)
               toks == TokenLogs(processed_block + 1, Height)
           IN /\ \A i \in 1..Len(prio) :
                     parse_pubdata(OpTypeOf(prio[i].op)) # "panic"
                         => PriorityLogQueued(prio[i])
              /\ \A i \in 1..Len(toks) : TokenLogMerged(toks[i])

\* C20: the registry key of a merged TokenAdded event is the event's id: once
\* the catch-up has merged the TokenAdded logs up to the startup height, every
\* id of those logs is a key of the registry, so distinct ids have distinct
\* entries.
C20_RegistryKeyIsEventId ==
    pc \in SteadyPcs
        => LET logs == TokenLogs(1, processed_block)
           IN /\ \A i \in 1..Len(logs) : logs[i].id \in DOMAIN tokens
              /\ Cardinality(DOMAIN tokens) >= Cardinality(EventIds(logs))

====
